---- MODULE Spec2Model ----
(***************************************************************************)
(* ktool: the `k` command line (src/ktool/cli.py, config.py, kube.py).     *)
(*                                                                         *)
(* One invocation of `k` is a sequential run                               *)
(*   parse_args -> resolve_namespace/resolve_service -> get_pods_json      *)
(*   -> filter loop -> tally loop -> table/summary                         *)
(* and the model follows it loop iteration by loop iteration.              *)
(*                                                                         *)
(* Python strings that the code looks into (startswith, `in`, re.search)   *)
(* are sequences of one-character strings; strings that are only compared  *)
(* or formatted (phase, reason, labels) are TLA+ strings.  Python's None   *)
(* in an Optional[str] slot is the value None below.  Python list indices  *)
(* start at 0, sequence indices here at 1.                                 *)
(***************************************************************************)
EXTENDS Integers, Sequences, FiniteSets, TLC

VARIABLES
    argv,        \* sys.argv[1:]
    units,       \* the same command line, grouped as it was typed (option + value)
    cfgFile,     \* ~/.ktool/config.yaml: [exists, data]
    kubectl,     \* what `kubectl get pods -n <ns> -o json` answers: [returncode, stderr, stdout]
    pc,          \* position of the run
    args,        \* parse_args: argv after the optional leading "pods" is dropped
    st,          \* parse_args locals, then the parameters of pods_impl
    ns, svc,     \* pods_impl: resolved namespace and service substring
    items,       \* pods_impl: data["items"]
    k,           \* pods_impl: position of the filter loop in items
    filtered,    \* pods_impl: filtered
    t,           \* pods_impl: position of the counting loop in filtered
    counts,      \* pods_impl: counts, as <<label, n>> pairs in insertion order
    bad_pods,    \* pods_impl: bad_pods
    out,         \* what console.print has written, in order
    exit_code,   \* process exit code, -1 while running
    error,       \* the exception that ended the run: <<class, detail>>, NoError if none
    calls        \* number of times run_kubectl started the external command

vars == <<argv, units, cfgFile, kubectl, pc, args, st, ns, svc, items, k,
          filtered, t, counts, bad_pods, out, exit_code, error, calls>>

----------------------------------------------------------------------------
(* Bounds of the explored inputs *)

MaxArgs == 3
MaxUnits == 3
MaxPods == 2
MaxContainers == 2

----------------------------------------------------------------------------
(* Python values *)

None == <<"None">>

\* str.startswith for a one-character prefix
StartsWith(a, c) == Len(a) >= 1 /\ a[1] = c

\* `sub in name` for Python strings
Contains(name, sub) ==
    \E j \in 0..(Len(name) - Len(sub)) :
        \A m \in 1..Len(sub) : name[j + m] = sub[m]

\* truthiness of an Optional[str]
Truthy(s) == s # None /\ s # <<>>

\* dict.get(key, default)
Get(d, key, default) == IF key \in DOMAIN d THEN d[key] ELSE default

----------------------------------------------------------------------------
(* Tokens of the command line *)

TokPods == <<"p","o","d","s">>
TokSummary == <<"-","-","s","u","m","m","a","r","y">>
TokBad == <<"-","-","b","a","d">>
TokShowCommand == <<"-","-","s","h","o","w","-","c","o","m","m","a","n","d">>
TokShowCommandCamel == <<"-","-","s","h","o","w","C","o","m","m","a","n","d">>
TokN == <<"-","n">>
TokNs == <<"-","-","n","s">>
TokS == <<"-","s">>
TokSearch == <<"-","-","s","e","a","r","c","h">>

----------------------------------------------------------------------------
(* parse_args *)

\* cli.py 130-133: drop one leading "pods"
StripPods(a) == IF Len(a) >= 1 /\ a[1] = TokPods THEN Tail(a) ELSE a

\* cli.py 135-142: the locals before the scan; err is the exception raised, "" if none
InitLocals ==
    [i |-> 1, service |-> None, namespace |-> None, search |-> None,
     summary |-> FALSE, bad_only |-> FALSE, show_command |-> FALSE, err |-> ""]

ErrMissingNs == "BadParameter: Missing value after -n/--ns"
ErrMissingSearch == "BadParameter: Missing value after -s/--search"

\* mutant: the value is not skipped, the scan resumes one position later
ValueOptionRescansValue(a, l, field, msg) ==
    IF l.i + 1 > Len(a)
    THEN [l EXCEPT !.err = msg]
    ELSE [l EXCEPT ![field] = a[l.i + 1], !.i = @ + 1]

\* mutant: an option without a value is skipped like an unknown token
ValueOptionUnchecked(a, l, field, msg) ==
    IF l.i + 1 > Len(a)
    THEN [l EXCEPT !.i = @ + 1]
    ELSE [l EXCEPT ![field] = a[l.i + 1], !.i = @ + 2]

\* cli.py 161-166 and 168-173: an option that takes the next token as its value
ValueOption(a, l, field, msg) ==
    IF l.i + 1 > Len(a)
    THEN [l EXCEPT !.err = msg]
    ELSE [l EXCEPT ![field] = a[l.i + 1], !.i = @ + 2]

\* mutant: every non-dash token becomes the service, the last one wins
OtherTokenLastWins(tok, l) ==
    IF ~StartsWith(tok, "-")
    THEN [l EXCEPT !.service = tok, !.i = @ + 1]
    ELSE [l EXCEPT !.i = @ + 1]

\* cli.py 175-182: the first non-dash token is the service, anything else is ignored
OtherToken(tok, l) ==
    IF ~StartsWith(tok, "-") /\ l.service = None
    THEN [l EXCEPT !.service = tok, !.i = @ + 1]
    ELSE [l EXCEPT !.i = @ + 1]

\* cli.py 144-182: one iteration of the while loop, at position l.i of a
ScanStep(a, l) ==
    LET tok == a[l.i] IN
    IF tok \in {TokSummary} THEN [l EXCEPT !.summary = TRUE, !.i = @ + 1]
    ELSE IF tok \in {TokBad} THEN [l EXCEPT !.bad_only = TRUE, !.i = @ + 1]
    ELSE IF tok \in {TokShowCommand, TokShowCommandCamel}
        THEN [l EXCEPT !.show_command = TRUE, !.i = @ + 1]
    ELSE IF tok \in {TokN, TokNs} THEN ValueOption(a, l, "namespace", ErrMissingNs)
    ELSE IF tok \in {TokS, TokSearch} THEN ValueOption(a, l, "search", ErrMissingSearch)
    ELSE OtherToken(tok, l)

\* cli.py 143: the loop goes on
Scanning(a, l) == l.err = "" /\ l.i <= Len(a)

RECURSIVE ScanFrom(_, _)
\* cli.py 143-182: the while loop from the locals l to its end
ScanFrom(a, l) == IF Scanning(a, l) THEN ScanFrom(a, ScanStep(a, l)) ELSE l

\* cli.py 184: the returned 6-tuple; a raised BadParameter returns nothing
Returned(l) ==
    IF l.err # "" THEN [err |-> l.err]
    ELSE [err |-> "", service |-> l.service, namespace |-> l.namespace,
          search |-> l.search, summary |-> l.summary, bad_only |-> l.bad_only,
          show_command |-> l.show_command]

\* cli.py 123-184
parse_args(a) == Returned(ScanFrom(StripPods(a), InitLocals))

----------------------------------------------------------------------------
(* config.py *)

DefaultNamespace == <<"d","e","f","a","u","l","t">>

\* config.py 14-28: the file is read again on every call
load_config ==
    IF ~cfgFile.exists
    THEN [default_namespace |-> DefaultNamespace, contexts |-> <<>>, services |-> <<>>]
    ELSE [default_namespace |-> Get(cfgFile.data, "default_namespace", DefaultNamespace),
          contexts |-> Get(cfgFile.data, "contexts", <<>>),
          services |-> Get(cfgFile.data, "services", <<>>)]

\* cli.py 27-29
resolve_namespace(n) ==
    LET cfg == load_config IN IF Truthy(n) THEN n ELSE cfg.default_namespace

\* mutant: cfg.services.get(tag), a tag that is no alias resolves to None
resolve_service_alias_only(tag) ==
    IF ~Truthy(tag) THEN None
    ELSE LET cfg == load_config IN Get(cfg.services, tag, None)

\* cli.py 32-36
resolve_service(tag) ==
    IF ~Truthy(tag) THEN None
    ELSE LET cfg == load_config IN Get(cfg.services, tag, tag)

----------------------------------------------------------------------------
(* pod_state *)

\* mutant: only Running counts as healthy
PhaseResultRunningOnly(phase) == <<phase, phase # "Running">>

\* cli.py 54-55: no container status decided
PhaseResult(phase) == <<phase, phase \notin {"Running", "Succeeded"}>>

\* cli.py 52: f"{terminated.get('reason','Exit')}(exit={code})"
ExitLabel(terminated, code) ==
    Get(terminated, "reason", "Exit") \o "(exit=" \o ToString(code) \o ")"

RECURSIVE ContainerLoopFirstOnly(_, _)
\* mutant: the loop stops at the first status that is waiting or terminated at all
ContainerLoopFirstOnly(css, phase) ==
    IF css = <<>> THEN PhaseResult(phase)
    ELSE LET cs == Head(css)
             state == Get(cs, "state", <<>>)
             waiting == Get(state, "waiting", <<>>)
             terminated == Get(state, "terminated", <<>>)
         IN IF DOMAIN waiting # {}
            THEN <<Get(waiting, "reason", "Waiting"), TRUE>>
            ELSE IF DOMAIN terminated # {}
            THEN IF Get(terminated, "exitCode", 0) # 0
                 THEN <<ExitLabel(terminated, Get(terminated, "exitCode", 0)), TRUE>>
                 ELSE PhaseResult(phase)
            ELSE ContainerLoopFirstOnly(Tail(css), phase)

RECURSIVE ContainerLoop(_, _)
\* cli.py 43-55: the for loop over the container statuses, then the phase
ContainerLoop(css, phase) ==
    IF css = <<>> THEN PhaseResult(phase)
    ELSE LET cs == Head(css)
             state == Get(cs, "state", <<>>)
             waiting == Get(state, "waiting", <<>>)
             terminated == Get(state, "terminated", <<>>)
         IN IF DOMAIN waiting # {}
            THEN <<Get(waiting, "reason", "Waiting"), TRUE>>
            ELSE IF DOMAIN terminated # {} /\ Get(terminated, "exitCode", 0) # 0
            THEN <<ExitLabel(terminated, Get(terminated, "exitCode", 0)), TRUE>>
            ELSE ContainerLoop(Tail(css), phase)

\* cli.py 39-55
pod_state(pod) ==
    LET status == Get(pod, "status", <<>>)
        phase == Get(status, "phase", "Unknown")
    IN ContainerLoop(Get(status, "containerStatuses", <<>>), phase)

----------------------------------------------------------------------------
(* re.search, for patterns made of literal characters, ".", a leading "^",  *)
(* a trailing "$", and "(" (which re refuses to compile when unclosed)      *)

\* cli.py 82: re.search raises re.error on an unterminated subpattern
ReError(p) ==
    \E j \in 1..Len(p) : p[j] = "(" /\ ~(\E m \in (j + 1)..Len(p) : p[m] = ")")

RECURSIVE MatchHere(_, _)
\* cli.py 82: the pattern p matches a prefix of s
MatchHere(p, s) ==
    IF p = <<>> THEN TRUE
    ELSE IF p = <<"$">> THEN s = <<>>
    ELSE IF s # <<>> /\ (p[1] = "." \/ p[1] = s[1]) THEN MatchHere(Tail(p), Tail(s))
    ELSE FALSE

\* cli.py 82: re.search(p, s) finds a match starting anywhere in s
ReSearch(p, s) ==
    IF StartsWith(p, "^") THEN MatchHere(Tail(p), s)
    ELSE \E j \in 0..Len(s) : MatchHere(p, SubSeq(s, j + 1, Len(s)))

----------------------------------------------------------------------------
(* kube.py *)

Whitespace == {" ", "\n", "\t"}

RECURSIVE LStrip(_)
LStrip(s) == IF s # <<>> /\ Head(s) \in Whitespace THEN LStrip(Tail(s)) ELSE s

RECURSIVE RStrip(_)
RStrip(s) ==
    IF s # <<>> /\ s[Len(s)] \in Whitespace THEN RStrip(SubSeq(s, 1, Len(s) - 1)) ELSE s

\* kube.py 21: p.stderr.strip()
Strip(s) == RStrip(LStrip(s))

----------------------------------------------------------------------------
(* pods_impl *)

\* cli.py 71: the command shown by --show-command
ShownCommand(n) == <<"kubectl", "get", "pods", "-n", n, "-o", "json">>

\* mutant: re.match in place of re.search, the pattern must match at the start
FilterPodMatch(pod, s, pattern) ==
    LET name == pod["metadata"]["name"] IN
    IF Truthy(s) /\ ~Contains(name, s) THEN "skip"
    ELSE IF Truthy(pattern)
         THEN IF ReError(pattern) THEN "re.error"
              ELSE IF ~MatchHere(IF StartsWith(pattern, "^") THEN Tail(pattern) ELSE pattern,
                                 name)
                   THEN "skip" ELSE "keep"
    ELSE "keep"

\* cli.py 80-83: "keep", "skip", or "re.error" when re.search cannot compile the pattern
FilterPod(pod, s, pattern) ==
    LET name == pod["metadata"]["name"] IN
    IF Truthy(s) /\ ~Contains(name, s) THEN "skip"
    ELSE IF Truthy(pattern)
         THEN IF ReError(pattern) THEN "re.error"
              ELSE IF ~ReSearch(pattern, name) THEN "skip" ELSE "keep"
    ELSE "keep"

\* mutant: counts[state] = 1, the earlier count is lost
CountAddOverwrites(c, label) ==
    IF \E j \in 1..Len(c) : c[j][1] = label
    THEN [j \in 1..Len(c) |-> IF c[j][1] = label THEN <<label, 1>> ELSE c[j]]
    ELSE Append(c, <<label, 1>>)

\* cli.py 100: counts[state] = counts.get(state, 0) + 1, keys in insertion order
CountAdd(c, label) ==
    IF \E j \in 1..Len(c) : c[j][1] = label
    THEN [j \in 1..Len(c) |-> IF c[j][1] = label THEN <<label, c[j][2] + 1>> ELSE c[j]]
    ELSE Append(c, <<label, 1>>)

\* cli.py 104
ShowList(bad_only, bad, all) == IF bad_only THEN bad ELSE all

\* cli.py 106-108: one table row
Row(pod) ==
    LET r == pod_state(pod) IN
    <<pod["metadata"]["name"], r[1], IF r[2] THEN "YES" ELSE "">>

RECURSIVE JoinCounts(_)
\* cli.py 115: ", ".join(f"{k}={v}" for k, v in counts.items())
JoinCounts(c) ==
    IF c = <<>> THEN ""
    ELSE c[1][1] \o "=" \o ToString(c[1][2])
         \o (IF Len(c) > 1 THEN ", " \o JoinCounts(Tail(c)) ELSE "")

\* cli.py 113-116
SummaryLine(c) == "[bold]Summary:[/bold] " \o JoinCounts(c)

\* cli.py 117-120
TotalLine(all, bad) ==
    "[bold]Total:[/bold] " \o ToString(Len(all)) \o "  "
    \o "[bold]Problematic:[/bold] " \o ToString(Len(bad))

NoError == <<"", <<>>>>

NoMatchLine == "[yellow]No pods matched[/yellow]"

----------------------------------------------------------------------------
(* The run *)

\* cli.py 243-252, 187-189: main_wrapper hands sys.argv[1:] to parse_args, which
\* copies it, drops a leading "pods" and sets its locals
ParseStart ==
    /\ pc = "start"
    /\ args' = StripPods(argv)
    /\ st' = InitLocals
    /\ pc' = "scan"
    /\ UNCHANGED <<argv, units, cfgFile, kubectl, ns, svc, items, k, filtered, t,
                   counts, bad_pods, out, exit_code, error, calls>>

\* cli.py 143-182: one iteration of the scan; BadParameter is not caught anywhere
Scan ==
    /\ pc = "scan"
    /\ Scanning(args, st)
    /\ st' = ScanStep(args, st)
    /\ IF st'.err # ""
       THEN pc' = "done" /\ error' = <<"BadParameter", st'.err>> /\ exit_code' = 1
       ELSE UNCHANGED <<pc, error, exit_code>>
    /\ UNCHANGED <<argv, units, cfgFile, kubectl, args, ns, svc, items, k, filtered,
                   t, counts, bad_pods, out, calls>>

\* cli.py 184, 189-190: parse_args returns and pods_impl is called with the result
ParseReturn ==
    /\ pc = "scan"
    /\ ~Scanning(args, st)
    /\ st.err = ""
    /\ pc' = "resolve"
    /\ UNCHANGED <<argv, units, cfgFile, kubectl, args, st, ns, svc, items, k,
                   filtered, t, counts, bad_pods, out, exit_code, error, calls>>

\* cli.py 66-72
Resolve ==
    /\ pc = "resolve"
    /\ ns' = resolve_namespace(st.namespace)
    /\ svc' = resolve_service(st.service)
    /\ out' = IF st.show_command
              THEN Append(out, <<"running", ShownCommand(ns')>>)
              ELSE out
    /\ pc' = "query"
    /\ UNCHANGED <<argv, units, cfgFile, kubectl, args, st, items, k, filtered, t,
                   counts, bad_pods, exit_code, error, calls>>

\* cli.py 74-77, kube.py 12-30: one subprocess.run; KubectlError is not caught anywhere
Query ==
    /\ pc = "query"
    /\ calls' = calls + 1
    /\ IF kubectl.returncode # 0
       THEN /\ error' = <<"KubectlError", Strip(kubectl.stderr)>>
            /\ exit_code' = 1
            /\ pc' = "done"
            /\ UNCHANGED <<items, k, filtered>>
       ELSE /\ items' = Get(kubectl.stdout, "items", <<>>)
            /\ filtered' = <<>>
            /\ k' = 1
            /\ pc' = "filter"
            /\ UNCHANGED <<error, exit_code>>
    /\ UNCHANGED <<argv, units, cfgFile, kubectl, args, st, ns, svc, t, counts,
                   bad_pods, out>>

\* cli.py 78-84: one iteration of the filter loop; re.error is not caught anywhere
FilterStep ==
    /\ pc = "filter"
    /\ k <= Len(items)
    /\ LET verdict == FilterPod(items[k], svc, st.search) IN
       IF verdict = "re.error"
       THEN /\ error' = <<"re.error", st.search>>
            /\ exit_code' = 1
            /\ pc' = "done"
            /\ UNCHANGED <<k, filtered>>
       ELSE /\ filtered' = IF verdict = "keep" THEN Append(filtered, items[k]) ELSE filtered
            /\ k' = k + 1
            /\ UNCHANGED <<error, exit_code, pc>>
    /\ UNCHANGED <<argv, units, cfgFile, kubectl, args, st, ns, svc, items, t, counts,
                   bad_pods, out, calls>>

\* cli.py 86-96: after the filter loop
FilterDone ==
    /\ pc = "filter"
    /\ k > Len(items)
    /\ IF filtered = <<>>
       THEN /\ out' = Append(out, <<"print", NoMatchLine>>)
            /\ error' = <<"Exit", <<>>>>
            /\ exit_code' = 1
            /\ pc' = "done"
            /\ UNCHANGED <<counts, bad_pods, t>>
       ELSE /\ counts' = <<>>
            /\ bad_pods' = <<>>
            /\ t' = 1
            /\ pc' = "count"
            /\ UNCHANGED <<out, error, exit_code>>
    /\ UNCHANGED <<argv, units, cfgFile, kubectl, args, st, ns, svc, items, k,
                   filtered, calls>>

\* cli.py 98-102: one iteration of the counting loop
CountStep ==
    /\ pc = "count"
    /\ t <= Len(filtered)
    /\ LET r == pod_state(filtered[t]) IN
       /\ counts' = CountAdd(counts, r[1])
       /\ bad_pods' = IF r[2] THEN Append(bad_pods, filtered[t]) ELSE bad_pods
    /\ t' = t + 1
    /\ UNCHANGED <<argv, units, cfgFile, kubectl, pc, args, st, ns, svc, items, k,
                   filtered, out, exit_code, error, calls>>

\* cli.py 104-120: the table, the summary, and the normal end of the process
Render ==
    /\ pc = "count"
    /\ t > Len(filtered)
    /\ LET show == ShowList(st.bad_only, bad_pods, filtered)
           rows == [j \in 1..Len(show) |-> Row(show[j])]
       IN out' = out \o <<<<"table", ns, rows>>>>
                 \o (IF st.summary
                     THEN << <<"print", SummaryLine(counts)>>,
                             <<"print", TotalLine(filtered, bad_pods)>> >>
                     ELSE <<>>)
    /\ exit_code' = 0
    /\ pc' = "done"
    /\ UNCHANGED <<argv, units, cfgFile, kubectl, args, st, ns, svc, items, k,
                   filtered, t, counts, bad_pods, error, calls>>

Next ==
    \/ ParseStart
    \/ Scan
    \/ ParseReturn
    \/ Resolve
    \/ Query
    \/ FilterStep
    \/ FilterDone
    \/ CountStep
    \/ Render

----------------------------------------------------------------------------
(* Explored inputs *)

SeqsUpTo(S, n) == UNION {[1..m -> S] : m \in 0..n}

RECURSIVE Concat(_)
Concat(us) == IF us = <<>> THEN <<>> ELSE Head(us) \o Concat(Tail(us))

Web == <<"w","e","b">>
Api == <<"a","p","i">>
Fe == <<"f","e">>
Db == <<"d","b">>
Prod == <<"p","r","o","d">>
Staging == <<"s","t","a","g","i","n","g">>
DashX == <<"-","x">>

Flags == {TokSummary, TokBad, TokShowCommand, TokShowCommandCamel}
NsOptions == {TokN, TokNs}
SearchOptions == {TokS, TokSearch}

\* every token the scan tells apart, two service names, an unknown option, ""
ParseTokens ==
    Flags \cup NsOptions \cup SearchOptions \cup {TokPods, Web, Api, DashX, <<>>}

\* a command line typed as flags, options with their value, and positional tokens
TypedUnits ==
    {<<TokSummary>>, <<TokBad>>, <<TokShowCommand>>, <<TokShowCommandCamel>>}
    \cup {<<TokN, Prod>>, <<TokNs, Staging>>, <<TokS, Web>>, <<TokSearch, TokPods>>}
    \cup {<<Web>>, <<Api>>, <<TokPods>>}

ContainerRunning == [name |-> "c", state |-> [running |-> [startedAt |-> "t0"]]]
ContainerNoState == [name |-> "c"]
ContainerWaiting(w) == [name |-> "c", state |-> [waiting |-> w]]
ContainerTerminated(x) == [name |-> "c", state |-> [terminated |-> x]]

ContainerStatuses ==
    {ContainerRunning, ContainerNoState,
     ContainerWaiting([reason |-> "CrashLoopBackOff"]),
     ContainerWaiting([message |-> "m"]),
     ContainerWaiting(<<>>),
     ContainerTerminated([exitCode |-> 0, reason |-> "Completed"]),
     ContainerTerminated([exitCode |-> 1, reason |-> "Error"]),
     ContainerTerminated([exitCode |-> 137]),
     ContainerTerminated([reason |-> "Completed"])}

Pod(name, status) == [metadata |-> [name |-> name], status |-> status]

Web1 == <<"w","e","b","-","1">>
Api2 == <<"a","p","i","-","2">>

PodHealthy(name) ==
    Pod(name, [phase |-> "Running", containerStatuses |-> <<ContainerRunning>>])
PodCrashing(name) ==
    Pod(name, [phase |-> "Running",
               containerStatuses |-> <<ContainerWaiting([reason |-> "CrashLoopBackOff"])>>])
PodPending(name) == Pod(name, [phase |-> "Pending"])

\* pods of every phase and every list of container statuses, for pod_state
ClassifyPods ==
    {[metadata |-> [name |-> Web1]]}
    \cup {Pod(Web1, [containerStatuses |-> c]) : c \in SeqsUpTo(ContainerStatuses, MaxContainers)}
    \cup {Pod(Web1, [phase |-> p, containerStatuses |-> c]) :
            p \in {"Running", "Succeeded", "Pending"},
            c \in SeqsUpTo(ContainerStatuses, MaxContainers)}

\* pods of two names and three states, for the filter and the tally
FilterPods ==
    UNION {{PodHealthy(n), PodCrashing(n), PodPending(n)} : n \in {Web1, Api2}}

SearchPatterns ==
    {Api, <<"^","w","e","b">>, <<"2","$">>, <<"w",".","b">>, <<"(">>}

FilterArgvs ==
    {sv \o se \o fl :
        sv \in {<<>>, <<Fe>>, <<Db>>},
        se \in {<<>>} \cup {<<TokS, p>> : p \in SearchPatterns},
        fl \in {<<>>, <<TokBad>>, <<TokSummary>>, <<TokBad, TokSummary>>}}

NoConfigFile == [exists |-> FALSE]
ConfigFile(data) == [exists |-> TRUE, data |-> data]

AliasConfig == ConfigFile([default_namespace |-> Prod, services |-> (Fe :> Web)])

ConfigFiles ==
    {NoConfigFile, ConfigFile(<<>>), AliasConfig,
     ConfigFile([default_namespace |-> Prod]),
     ConfigFile([services |-> (Fe :> Web)]),
     ConfigFile([contexts |-> (Web :> Prod), services |-> <<>>])}

CfgArgvs ==
    {sv \o n :
        sv \in {<<>>, <<Web>>, <<Fe>>, <<<<>>>>},
        n \in {<<>>, <<TokN, Staging>>, <<TokNs, <<>>>>}}

KubectlOk(pods) == [returncode |-> 0, stderr |-> <<>>, stdout |-> [kind |-> "List", items |-> pods]]
KubectlNoItems == [returncode |-> 0, stderr |-> <<>>, stdout |-> [kind |-> "List"]]
KubectlFailed ==
    [returncode |-> 1, stderr |-> <<"n","o"," ","n","s","\n">>, stdout |-> <<>>]

TwoPods == <<PodHealthy(Web1), PodCrashing(Api2)>>

\* the state when the process starts
Begin(a, u, c, kc) ==
    /\ argv = a
    /\ units = u
    /\ cfgFile = c
    /\ kubectl = kc
    /\ pc = "start"
    /\ args = <<>>
    /\ st = InitLocals
    /\ ns = None
    /\ svc = None
    /\ items = <<>>
    /\ k = 0
    /\ filtered = <<>>
    /\ t = 0
    /\ counts = <<>>
    /\ bad_pods = <<>>
    /\ out = <<>>
    /\ exit_code = -1
    /\ error = NoError
    /\ calls = 0

Singletons(a) == [j \in 1..Len(a) |-> <<a[j]>>]

\* any token sequence
InitParse ==
    \E a \in SeqsUpTo(ParseTokens, MaxArgs) :
        Begin(a, Singletons(a), NoConfigFile, KubectlOk(TwoPods))

\* command lines typed unit by unit
InitUnits ==
    \E u \in SeqsUpTo(TypedUnits, MaxUnits) :
        Begin(Concat(u), u, NoConfigFile, KubectlOk(TwoPods))

\* one pod of any shape
InitClassify ==
    \E pod \in ClassifyPods, a \in {<<>>, <<TokBad>>, <<TokSummary>>, <<TokN>>} :
        Begin(a, Singletons(a), NoConfigFile, KubectlOk(<<pod>>))

\* pod lists against service and search filters
InitFilter ==
    \E a \in FilterArgvs :
        \E kc \in {KubectlOk(ps) : ps \in SeqsUpTo(FilterPods, MaxPods)}
                  \cup {KubectlNoItems, KubectlFailed} :
            Begin(a, Singletons(a), AliasConfig, kc)

\* configurations against given and missing namespace and service
InitCfg ==
    \E c \in ConfigFiles, a \in CfgArgvs,
       kc \in {KubectlOk(TwoPods), KubectlFailed} :
        Begin(a, Singletons(a), c, kc)

SpecParse == InitParse /\ [][Next]_vars
SpecUnits == InitUnits /\ [][Next]_vars
SpecClassify == InitClassify /\ [][Next]_vars
SpecFilter == InitFilter /\ [][Next]_vars
SpecCfg == InitCfg /\ [][Next]_vars

\* every run of the scan ends: the only scheduling is the interpreter running on
FairSpecParse == SpecParse /\ WF_vars(Next)

----------------------------------------------------------------------------
(* Claims about parse_args *)

\* parse_args has just returned or raised
ParseEnded == pc = "resolve" \/ error[1] = "BadParameter"

\* the run went on into pods_impl and resolved namespace and service
Resolved == pc \in {"query", "filter", "count"} \/ (pc = "done" /\ calls >= 1)

\* C1: for every token sequence whose first token is `pods`, parse_args of the
\* sequence and parse_args of the sequence without that token give the same
\* 6-tuple or the same usage error, also when the second token is `pods` again.
C1_LeadingPodsDropped ==
    (ParseEnded /\ Len(argv) >= 1 /\ argv[1] = TokPods)
        => Returned(st) = parse_args(Tail(argv))

\* C1, the case the code does satisfy: the token after the leading `pods` is not `pods`
C1_SinglePodsDropped ==
    (ParseEnded /\ Len(argv) >= 1 /\ argv[1] = TokPods
        /\ ~(Len(argv) >= 2 /\ argv[2] = TokPods))
        => Returned(st) = parse_args(Tail(argv))

Perms(n) == {f \in [1..n -> 1..n] : \A a, b \in 1..n : a # b => f[a] # f[b]}
Permuted(u, f) == [j \in 1..Len(u) |-> u[f[j]]]

IsPositional(u) == Len(u) = 1 /\ ~StartsWith(u[1], "-")
IsValueOption(u, names) == Len(u) = 2 /\ u[1] \in names

\* the command line is made of flags, value options with their value, positionals
Typed(us) ==
    \A j \in 1..Len(us) :
        \/ Len(us[j]) = 1 /\ us[j][1] \in Flags
        \/ IsValueOption(us[j], NsOptions \cup SearchOptions)
        \/ IsPositional(us[j])

\* at most one positional, which is not `pods`, and no option given two values
Unambiguous(us) ==
    /\ Cardinality({j \in 1..Len(us) : IsPositional(us[j])}) <= 1
    /\ \A j \in 1..Len(us) : us[j] # <<TokPods>>
    /\ \A a, b \in 1..Len(us) :
        \A names \in {NsOptions, SearchOptions} :
            (IsValueOption(us[a], names) /\ IsValueOption(us[b], names))
                => us[a][2] = us[b][2]

\* C2 as stated: every permutation of the flags, value options (with their
\* value) and positional tokens of a command line parses to the same 6-tuple.
C2_AnyOrderSameResult ==
    (pc = "resolve" /\ Typed(units))
        => \A f \in Perms(Len(units)) :
              parse_args(Concat(Permuted(units, f))) = Returned(st)

\* C2, amended: every permutation parses to the same 6-tuple when the command
\* line has at most one positional token, that token is not `pods`, and no value
\* option is given two different values.
C2_OrderIndependentWhenUnambiguous ==
    (pc = "resolve" /\ Typed(units) /\ Unambiguous(units))
        => \A f \in Perms(Len(units)) :
              parse_args(Concat(Permuted(units, f))) = Returned(st)

\* a command line with a flag, an option with its value and a positional, parsed
C2_Witness ==
    /\ pc = "resolve"
    /\ units = << <<TokN, Prod>>, <<TokBad>>, <<Web>> >>
    /\ Unambiguous(units)
    /\ st.service = Web /\ st.namespace = Prod /\ st.bad_only

ValueOptions == NsOptions \cup SearchOptions

\* the scan is at a -n/--ns/-s/--search token
AtValueOption == pc = "scan" /\ Scanning(args, st) /\ args[st.i] \in ValueOptions

C3_Step ==
    AtValueOption =>
        IF st.i = Len(args)
        THEN /\ pc' = "done"
             /\ error'[1] = "BadParameter"
             /\ exit_code' # 0
             /\ st'.err # ""
        ELSE /\ pc' = "scan"
             /\ error' = NoError
             /\ st'.err = ""
             /\ st'.i = st.i + 2
             /\ IF args[st.i] \in NsOptions
                THEN st' = [st EXCEPT !.namespace = args[st.i + 1], !.i = st.i + 2]
                ELSE st' = [st EXCEPT !.search = args[st.i + 1], !.i = st.i + 2]

\* after the usage error nothing is returned: pods_impl never starts
C3_NoResult ==
    error[1] = "BadParameter" =>
        /\ pc = "done"
        /\ calls = 0
        /\ out = <<>>
        /\ Returned(st) = [err |-> st.err]
        /\ st.err \in {ErrMissingNs, ErrMissingSearch}

\* C3: when the scan reaches -n, --ns, -s or --search with no token after it,
\* parse_args raises the usage error and returns nothing; when a token follows,
\* that token is the value, verbatim, the scan resumes two positions later and
\* no usage error is raised.
C3_ValueOptionTakesNextToken == [][C3_Step]_vars /\ []C3_NoResult

\* a value was taken (a flag token, verbatim) and a later option had none
C3_Witness ==
    /\ argv = <<TokN, TokBad, TokS>>
    /\ error = <<"BadParameter", ErrMissingSearch>>
    /\ st.namespace = TokBad
    /\ ~st.bad_only

Recognised == Flags \cup ValueOptions

\* the scan is at a token that is neither a flag nor a value option
AtOtherToken == pc = "scan" /\ Scanning(args, st) /\ args[st.i] \notin Recognised

C8_Step ==
    /\ AtOtherToken =>
          IF ~StartsWith(args[st.i], "-") /\ st.service = None
          THEN st' = [st EXCEPT !.service = args[st.i], !.i = st.i + 1]
          ELSE st' = [st EXCEPT !.i = st.i + 1]
    /\ (pc = "scan" /\ st.service # None) => st'.service = st.service
    /\ (pc = "scan" /\ Scanning(args, st)) => (st'.i > st.i \/ st'.err # "")

\* the only failure is a value option that is the last token
C8_OnlyFailure ==
    st.err # "" => (st.i = Len(args) /\ args[st.i] \in ValueOptions)

\* C8: parse_args ends on every token sequence and fails only for a value option
\* with no following token; any other token is taken as the service when it is
\* the first token not starting with `-`, and is skipped otherwise, so a later
\* non-dash token never replaces the service and an unknown dash token changes
\* no field.
C8_ScanTolerant ==
    /\ [][C8_Step]_vars
    /\ []C8_OnlyFailure
    /\ <>(pc \notin {"start", "scan"})

\* the service was taken, then an unknown dash token and a second name were skipped
C8_Witness ==
    /\ argv = <<Web, DashX, Api>>
    /\ pc = "resolve"
    /\ st.service = Web
    /\ st.i = 4

----------------------------------------------------------------------------
(* Claims about pod_state *)

\* the pod list holds one pod and the counting loop has classified it
Classified == pc \in {"count", "done"} /\ Len(items) = 1 /\ t = 2

\* what the run recorded for its only pod: the label counted and whether it is bad
Recorded == <<counts[1][1], bad_pods # <<>>>>

StatusOf(pod) == IF "status" \in DOMAIN pod THEN pod.status ELSE <<>>
PhaseOf(pod) ==
    IF "phase" \in DOMAIN StatusOf(pod) THEN StatusOf(pod).phase ELSE "Unknown"
ContainersOf(pod) ==
    IF "containerStatuses" \in DOMAIN StatusOf(pod)
    THEN StatusOf(pod).containerStatuses ELSE <<>>

HasSubState(cs, sub) ==
    /\ "state" \in DOMAIN cs
    /\ sub \in DOMAIN cs.state
    /\ cs.state[sub] # <<>>
IsWaiting(cs) == HasSubState(cs, "waiting")
IsTerminated(cs) == HasSubState(cs, "terminated")
FailedExit(cs) ==
    /\ IsTerminated(cs)
    /\ "exitCode" \in DOMAIN cs.state.terminated
    /\ cs.state.terminated.exitCode # 0

ByPhase(pod) == <<PhaseOf(pod), ~(PhaseOf(pod) = "Running" \/ PhaseOf(pod) = "Succeeded")>>

\* the three branches of the policy, read off one container status
ByStatus(cs, pod) ==
    IF IsWaiting(cs)
    THEN <<IF "reason" \in DOMAIN cs.state.waiting
           THEN cs.state.waiting.reason ELSE "Waiting", TRUE>>
    ELSE IF FailedExit(cs)
    THEN <<(IF "reason" \in DOMAIN cs.state.terminated
            THEN cs.state.terminated.reason ELSE "Exit")
           \o "(exit=" \o ToString(cs.state.terminated.exitCode) \o ")", TRUE>>
    ELSE ByPhase(pod)

\* C4: for a pod with one container status: waiting (non-empty) gives (waiting
\* reason, problematic); else terminated with a nonzero exit code gives
\* ("<reason>(exit=<code>)", problematic); otherwise (phase, problematic exactly
\* when the phase is neither Running nor Succeeded).  Only the pod record counts.
C4_ThreeBranchPolicy ==
    (Classified /\ Len(ContainersOf(items[1])) = 1)
        => /\ Recorded = ByStatus(ContainersOf(items[1])[1], items[1])
           /\ (ContainersOf(items[1])[1] =
                   ContainerTerminated([exitCode |-> 1, reason |-> "Error"])
                 => Recorded = <<"Error(exit=1)", TRUE>>)
           /\ (ContainersOf(items[1])[1] =
                   ContainerWaiting([reason |-> "CrashLoopBackOff"])
                 => Recorded = <<"CrashLoopBackOff", TRUE>>)
           /\ ((ContainersOf(items[1])[1] = ContainerRunning
                   /\ PhaseOf(items[1]) = "Running")
                 => Recorded = <<"Running", FALSE>>)

\* one terminated container with exit code 1, in a Succeeded pod, is classified
C4_Witness ==
    /\ Classified
    /\ pc = "done"
    /\ StatusOf(items[1]) =
          [phase |-> "Succeeded",
           containerStatuses |-> <<ContainerTerminated([exitCode |-> 1, reason |-> "Error"])>>]
    /\ Recorded = <<"Error(exit=1)", TRUE>>

\* positions of the statuses with a non-empty waiting or terminated sub-state
WithSubState(css) == {j \in 1..Len(css) : IsWaiting(css[j]) \/ IsTerminated(css[j])}
\* positions of the statuses that are waiting or terminated with a nonzero exit code
Failing(css) == {j \in 1..Len(css) : IsWaiting(css[j]) \/ FailedExit(css[j])}
First(S) == CHOOSE j \in S : \A m \in S : j <= m

----------------------------------------------------------------------------
(* Claims about pods_impl *)

NameOf(pod) == pod.metadata.name

\* the pattern without its anchors
Core(p) ==
    LET a == IF StartsWith(p, "^") THEN Tail(p) ELSE p
    IN IF a # <<>> /\ a[Len(a)] = "$" THEN SubSeq(a, 1, Len(a) - 1) ELSE a

\* the pattern matches the stretch name[a+1..b], where the anchors allow it
MatchesSomewhere(p, name) ==
    \E a \in 0..Len(name) : \E b \in a..Len(name) :
        /\ StartsWith(p, "^") => a = 0
        /\ (p # <<>> /\ p[Len(p)] = "$") => b = Len(name)
        /\ b - a = Len(Core(p))
        /\ \A m \in 1..Len(Core(p)) :
              Core(p)[m] = "." \/ Core(p)[m] = name[a + m]

\* the service substring the alias stands for, from the configuration file
ResolvedService ==
    IF cfgFile.exists /\ "services" \in DOMAIN cfgFile.data
       /\ st.service \in DOMAIN cfgFile.data.services
    THEN cfgFile.data.services[st.service] ELSE st.service

Retained(pod) ==
    /\ (st.service = None \/ Contains(NameOf(pod), ResolvedService))
    /\ (st.search = None \/ MatchesSomewhere(st.search, NameOf(pod)))

\* C6: a pod of the item list is in the filtered list exactly when (no service is
\* given or its name contains the resolved service substring) and (no search
\* pattern is given or the pattern matches somewhere in its name); the filtered
\* list keeps the order of the item list and holds pods of the item list only.
C6_FilterRetainsMatching ==
    pc \in {"filter", "count", "done"}
        => filtered = SelectSeq(SubSeq(items, 1, k - 1), Retained)

\* both filters given, the filter loop done: one pod kept, one dropped
C6_Witness ==
    /\ pc = "count"
    /\ st.service = Fe /\ svc = Web
    /\ st.search = <<"w",".","b">>
    /\ Len(items) = 2 /\ k = 3
    /\ filtered = <<items[2]>>

TablesIn(o) == {j \in 1..Len(o) : o[j][1] = "table"}
SummariesIn(o) ==
    {j \in 1..Len(o) : o[j][1] = "print" /\ o[j][2] # NoMatchLine}

\* C7: a run of pods_impl ends in exactly one of three outcomes: non-zero exit
\* with kubectl's error text when the query fails; exit code 1 with the no-match
\* notice when the query succeeds and no pod passes the filter; exit code 0 with
\* the table rendered otherwise.  kubectl is started exactly once, and after a
\* query failure or a no-match neither table nor summary is rendered.
C7_ThreeOutcomes ==
    (pc = "done" /\ error[1] # "BadParameter") =>
        /\ calls = 1
        /\ IF kubectl.returncode # 0
           THEN /\ exit_code # 0
                /\ error = <<"KubectlError", <<"n","o"," ","n","s">>>>
                /\ TablesIn(out) = {} /\ SummariesIn(out) = {}
           ELSE IF SelectSeq(items, Retained) = <<>>
           THEN /\ exit_code = 1
                /\ out # <<>> /\ out[Len(out)] = <<"print", NoMatchLine>>
                /\ TablesIn(out) = {} /\ SummariesIn(out) = {}
           ELSE /\ exit_code = 0
                /\ Cardinality(TablesIn(out)) = 1

\* C7 for runs whose search pattern compiles
C7_ThreeOutcomesValidPattern ==
    (pc = "done" /\ error[1] # "BadParameter" /\ ~(st.search = <<"(">>))
        => C7_ThreeOutcomes

LabelOf(pod) == pod_state(pod)[1]
IsBad(pod) == pod_state(pod)[2]

RECURSIVE SumCounts(_)
SumCounts(c) == IF c = <<>> THEN 0 ELSE c[1][2] + SumCounts(Tail(c))

\* the counting loop has run over the first t-1 filtered pods
TallyDone(n) ==
    /\ SumCounts(counts) = n
    /\ \A a, b \in 1..Len(counts) : a # b => counts[a][1] # counts[b][1]
    /\ \A j \in 1..Len(counts) :
          counts[j][2] = Cardinality({m \in 1..n : LabelOf(filtered[m]) = counts[j][1]})
    /\ \A m \in 1..n : \E j \in 1..Len(counts) : counts[j][1] = LabelOf(filtered[m])
    /\ bad_pods = SelectSeq(SubSeq(filtered, 1, n), IsBad)

\* C10: the tally is over the filtered pods, not over the displayed rows: the
\* counts sum to the number of filtered pods, each label's count is the number
\* of filtered pods with that label, the problematic total is the number of
\* filtered pods classified problematic, and --bad only selects the rows shown
\* (the problematic filtered pods), with counts, totals and exit code unchanged.
C10_TallyOverFiltered ==
    /\ pc = "count" => TallyDone(t - 1)
    /\ (pc = "done" /\ exit_code = 0) =>
          /\ TallyDone(Len(filtered))
          /\ LET shown == IF st.bad_only THEN SelectSeq(filtered, IsBad) ELSE filtered
                 table == out[CHOOSE j \in TablesIn(out) : TRUE]
             IN /\ Len(table[3]) = Len(shown)
                /\ \A j \in 1..Len(shown) :
                      table[3][j] = <<NameOf(shown[j]), LabelOf(shown[j]),
                                      IF IsBad(shown[j]) THEN "YES" ELSE "">>
          /\ st.summary =>
                out[Len(out)] =
                    <<"print", "[bold]Total:[/bold] " \o ToString(Len(filtered))
                               \o "  [bold]Problematic:[/bold] "
                               \o ToString(Cardinality({m \in 1..Len(filtered) :
                                                          IsBad(filtered[m])}))>>
    /\ (pc = "done" /\ Resolved /\ kubectl.returncode = 0 /\ filtered # <<>>
          /\ error[1] # "re.error") => exit_code = 0

\* --bad and --summary with a crashing and a healthy pod: two counted, one row shown
C10_Witness ==
    /\ pc = "done" /\ exit_code = 0
    /\ st.bad_only /\ st.summary
    /\ Len(filtered) = 2
    /\ counts = <<<<"CrashLoopBackOff", 1>>, <<"Running", 1>>>>
    /\ Len(bad_pods) = 1
    /\ Len(out[1][3]) = 1

----------------------------------------------------------------------------
(* Claims about the configuration *)

\* the keys of the services map of the configuration file
ServiceKeys ==
    IF cfgFile.exists /\ "services" \in DOMAIN cfgFile.data
    THEN DOMAIN cfgFile.data.services ELSE {}

\* C9: with no config file, a missing namespace resolves to "default" and every
\* non-empty service tag resolves to itself; in every configuration a given
\* non-empty namespace is returned unchanged and a service tag that is no key of
\* the services map is returned unchanged.
C9_ConfigDefaults ==
    Resolved =>
        /\ (~cfgFile.exists /\ st.namespace = None)
              => ns = <<"d","e","f","a","u","l","t">>
        /\ (~cfgFile.exists /\ st.service \notin {None, <<>>}) => svc = st.service
        /\ st.namespace \notin {None, <<>>} => ns = st.namespace
        /\ (st.service \notin {None, <<>>} /\ st.service \notin ServiceKeys)
              => svc = st.service

\* no config file, no namespace given, a service given: both resolved
C9_Witness ==
    /\ Resolved
    /\ ~cfgFile.exists
    /\ argv = <<Web>>
    /\ ns = DefaultNamespace
    /\ svc = Web

\* a config file without the alias, a namespace given: both returned unchanged
C9_WitnessConfigured ==
    /\ Resolved
    /\ cfgFile = AliasConfig
    /\ argv = <<Web, TokN, Staging>>
    /\ ns = Staging
    /\ svc = Web

====
